---- MODULE Spec2Model ----
(***************************************************************************)
(* Model of assign_seats (src/main.py): the preserved-seat pass followed   *)
(* by the first-fit allocation loop over the audience requests.            *)
(*                                                                         *)
(* Blocks are named by their index (block-1 is 1, block-2 is 2, ...), the  *)
(* order load_available_seats gives the inventory.  Seat ids are opaque    *)
(* tokens, modelled as numbers.  The fields member_name and pickup_method  *)
(* are copied from the input record to the assignment and never read by    *)
(* assign_seats; they are left out of the records.                         *)
(*                                                                         *)
(* The two input lists are drawn one record at a time, as the loops read   *)
(* them.  An inventory has some of the blocks 1..NumBlocks as keys and     *)
(* some of the seat ids 1..MaxSeats in them, so a binding can name a block *)
(* or a seat the inventory does not have.                                  *)
(***************************************************************************)
EXTENDS Integers, Sequences, FiniteSets, TLC

\* ---------------------------------------------------------------- bounds
NumBlocks == 2
MaxSeats == 3
MaxParty == 2
\* len(preserved_seats) is at most MaxPreserved, and
\* len(preserved_seats) + len(audience_requests) at most MaxInputs
MaxPreserved == 2
MaxInputs == 3

\* ---------------------------------------------------------------- values
Blocks == 1..NumBlocks
Seats == 1..MaxSeats
Holders == {"X", "Y"}
\* python None, as the allocation time / timestamp of a record
NoneTime == "None"
\* datetime.max, what parse_timestamp returns when no format parses
DatetimeMax == "datetime.max"
ValidTimes == {"t1"}
Times == {NoneTime, DatetimeMax} \cup ValidTimes

\* the records load_preserved_seats and load_audience_requests build
PreservedSeat ==
    [block : Blocks, seat_number : Seats,
     ticket_holder_name : Holders, allocation_time : Times]
AudienceRequest ==
    [ticket_holder_name : Holders, timestamp : Times, num_tickets : 1..MaxParty]

VARIABLES
    pc,                      \* "preserved", "requests" or "done"
    available_seats_ordered, \* block -> sequence of seat ids still available
    assigned_seats_by_block, \* block -> sequence of assignment records
    assigned_keys,           \* insertion order of assigned_seats_by_block's keys
    preserved_tickets_lookup,\* <<holder, time>> -> count
    unassigned_requests,     \* sequence of requests
    original,                \* history: the inventory on entry
    ps_log,                  \* history: the bindings handled, with found/not
    rq_log                   \* history: the requests handled, with outcome

vars == <<pc, available_seats_ordered, assigned_seats_by_block, assigned_keys,
          preserved_tickets_lookup, unassigned_requests, original, ps_log, rq_log>>

\* ---------------------------------------------------------------- helpers
RECURSIVE SumLen(_, _)
\* sum of len(f[k]) over the keys ks of the mapping f
SumLen(f, ks) ==
    IF ks = {} THEN 0
    ELSE LET k == CHOOSE x \in ks : TRUE
         IN Len(f[k]) + SumLen(f, ks \ {k})

Range(s) == {s[i] : i \in 1..Len(s)}

\* the available list of a block holding the n seat ids after `first`
SeatRun(first, n) == [i \in 1..n |-> first + i]

\* the number of seats in the blocks of `sizes` that come before block b
SeatsBefore(sizes, b) == SumLen([c \in DOMAIN sizes |-> [i \in 1..sizes[c] |-> i]],
                                {c \in DOMAIN sizes : c < b})

\* The inventories load_available_seats can hand over: a non-empty mapping, its
\* keys in ascending index order, no seat id twice.  assign_seats only compares
\* seat ids for equality, so every such inventory is, up to a renaming of the
\* ids, one whose ids are numbered in block order; ids above the number of
\* seats in the inventory are ids no block holds.
Inventories ==
    UNION {{[b \in D |-> SeatRun(SeatsBefore(sizes, b), sizes[b])] :
              sizes \in {z \in [D -> 0..MaxSeats] :
                            SumLen([c \in D |-> [i \in 1..z[c] |-> i]], D) <= MaxSeats}}
           : D \in (SUBSET Blocks) \ {{}}}

\* ---------------------------------------------------------------- code
\* a validity test that forgets the parse-failure sentinel
IsValidTime_truthy(t) == t # NoneTime

\* `t and t != datetime.max`
IsValidTime(t) == t # NoneTime /\ t # DatetimeMax

\* a remove that drops the last seat of the list, whatever was asked for
RemoveSeat_last(seats, s) == SubSeq(seats, 1, Len(seats) - 1)

\* a remove that leaves the list as it was
RemoveSeat_kept(seats, s) == seats

\* list.remove(x): drops the first occurrence of x
RemoveSeat(seats, s) ==
    LET i == CHOOSE k \in 1..Len(seats) :
                 seats[k] = s /\ \A m \in 1..(k - 1) : seats[m] # s
    IN [k \in 1..(Len(seats) - 1) |-> IF k < i THEN seats[k] ELSE seats[k + 1]]

\* is the binding's seat in the available list of the binding's block
SeatFound(av, ps) ==
    /\ ps.block \in DOMAIN av
    /\ ps.seat_number \in Range(av[ps.block])

\* a preserved pass that never touches the inventory
ResolveInventory_untouched(av, ps) == av

\* lines 235-246: the inventory after one preserved binding
ResolveInventory(av, ps) ==
    IF SeatFound(av, ps)
    THEN [av EXCEPT ![ps.block] = RemoveSeat(@, ps.seat_number)]
    ELSE av

\* an extend that expects the block to be a key already
ExtendBlock_known(asg, b, items) ==
    IF b \in DOMAIN asg THEN [asg EXCEPT ![b] = @ \o items] ELSE asg

\* dict.setdefault(b, []).extend(items)
ExtendBlock(asg, b, items) ==
    IF b \in DOMAIN asg
    THEN [asg EXCEPT ![b] = @ \o items]
    ELSE [k \in DOMAIN asg \cup {b} |-> IF k = b THEN items ELSE asg[k]]

KeysAfter(keys, b) == IF b \in Range(keys) THEN keys ELSE Append(keys, b)

PreservedAssignment(ps) ==
    [seat_number |-> ps.seat_number,
     ticket_holder_name |-> ps.ticket_holder_name,
     timestamp |-> ps.allocation_time]

\* lines 250-252: the lookup after one preserved binding
LookupAfter(lk, ps) ==
    IF IsValidTime(ps.allocation_time)
    THEN LET key == <<ps.ticket_holder_name, ps.allocation_time>>
         IN [k \in DOMAIN lk \cup {key} |->
                IF k = key
                THEN (IF key \in DOMAIN lk THEN lk[key] ELSE 0) + 1
                ELSE lk[k]]
    ELSE lk

EmptyLookup == [k \in {} |-> 0]

Init ==
    /\ pc = "preserved"
    /\ available_seats_ordered \in Inventories
    /\ original = available_seats_ordered
    /\ assigned_seats_by_block = [b \in DOMAIN available_seats_ordered |-> <<>>]
    /\ assigned_keys = [i \in 1..Cardinality(DOMAIN available_seats_ordered) |->
                          CHOOSE b \in DOMAIN available_seats_ordered :
                              Cardinality({c \in DOMAIN available_seats_ordered : c < b}) = i - 1]
    /\ preserved_tickets_lookup = EmptyLookup
    /\ unassigned_requests = <<>>
    /\ ps_log = <<>>
    /\ rq_log = <<>>

\* one iteration of `for ps in preserved_seats` (lines 217-252)
Preserve(ps) ==
    /\ pc = "preserved"
    /\ Len(ps_log) < MaxPreserved
    /\ assigned_seats_by_block' =
           ExtendBlock(assigned_seats_by_block, ps.block, <<PreservedAssignment(ps)>>)
    /\ assigned_keys' = KeysAfter(assigned_keys, ps.block)
    /\ available_seats_ordered' = ResolveInventory(available_seats_ordered, ps)
    /\ preserved_tickets_lookup' = LookupAfter(preserved_tickets_lookup, ps)
    /\ ps_log' = Append(ps_log, [ps |-> ps, found |-> SeatFound(available_seats_ordered, ps)])
    /\ UNCHANGED <<pc, unassigned_requests, original, rq_log>>

\* the preserved list is exhausted (or empty): line 254
StartRequests ==
    /\ pc = "preserved"
    /\ pc' = "requests"
    /\ unassigned_requests' = <<>>
    /\ UNCHANGED <<available_seats_ordered, assigned_seats_by_block, assigned_keys,
                   preserved_tickets_lookup, original, ps_log, rq_log>>

\* a match on the key alone, the count left unexamined
CoveredByPreserved_present(lk, request) ==
    /\ IsValidTime(request.timestamp)
    /\ <<request.ticket_holder_name, request.timestamp>> \in DOMAIN lk

\* `key in lookup and lookup[key] >= n`, tried only for a valid timestamp
\* (lines 264-270)
CoveredByPreserved(lk, request) ==
    /\ IsValidTime(request.timestamp)
    /\ <<request.ticket_holder_name, request.timestamp>> \in DOMAIN lk
    /\ lk[<<request.ticket_holder_name, request.timestamp>>] >= request.num_tickets

\* one preserved ticket used up per request, whatever its party size
UsePreserved_one(lk, request) ==
    [lk EXCEPT ![<<request.ticket_holder_name, request.timestamp>>] = @ - 1]

\* lines 272-274: "use up" the preserved tickets
UsePreserved(lk, request) ==
    [lk EXCEPT ![<<request.ticket_holder_name, request.timestamp>>] =
                   @ - request.num_tickets]

\* a block counted as fitting only with a seat to spare
Fits_strict(seats_in_block, num_tickets_needed) ==
    Len(seats_in_block) > num_tickets_needed

\* line 287
Fits(seats_in_block, num_tickets_needed) == Len(seats_in_block) >= num_tickets_needed

NoBlock == 0

\* the last block that fits instead of the first
FirstFit_last(av, n) ==
    IF \E b \in DOMAIN av : Fits(av[b], n)
    THEN CHOOSE b \in DOMAIN av :
             Fits(av[b], n) /\ \A c \in DOMAIN av : c > b => ~Fits(av[c], n)
    ELSE NoBlock

\* lines 286-287, 305: the first block, in the mapping's order, that fits
FirstFit(av, n) ==
    IF \E b \in DOMAIN av : Fits(av[b], n)
    THEN CHOOSE b \in DOMAIN av :
             Fits(av[b], n) /\ \A c \in DOMAIN av : c < b => ~Fits(av[c], n)
    ELSE NoBlock

RECURSIVE FrontSeats(_, _)
\* every (block, seat) pair of the inventory, blocks ascending, seats in order
FrontSeats(av, bs) ==
    IF bs = {} THEN <<>>
    ELSE LET b == CHOOSE x \in bs : \A y \in bs : x <= y
         IN [i \in 1..Len(av[b]) |-> [block |-> b, seat |-> av[b][i]]]
            \o FrontSeats(av, bs \ {b})

\* a request seated across blocks: the first n seats of the whole inventory
Placements_split(av, n) ==
    IF Len(FrontSeats(av, DOMAIN av)) >= n
    THEN SubSeq(FrontSeats(av, DOMAIN av), 1, n)
    ELSE <<>>

\* lines 286-290: the (block, seat) pairs popped for a request of n tickets,
\* in the order they are popped; empty when no block fits
Placements(av, n) ==
    LET b == FirstFit(av, n)
    IN IF b = NoBlock THEN <<>>
       ELSE [i \in 1..n |-> [block |-> b, seat |-> av[b][i]]]

\* how many of the placements were popped from block b
PoppedFrom(pl, b) == Cardinality({i \in 1..Len(pl) : pl[i].block = b})

\* seats read from the front of the block but left in it
AfterPop_peek(av, pl) == av

\* line 290: every placement is a pop(0) on its block
AfterPop(av, pl) ==
    [b \in DOMAIN av |-> SubSeq(av[b], PoppedFrom(pl, b) + 1, Len(av[b]))]

NewAssignment(request, seat) ==
    [seat_number |-> seat,
     ticket_holder_name |-> request.ticket_holder_name,
     timestamp |-> request.timestamp]

RECURSIVE RecordPlacements(_, _, _)
\* lines 291-303: the seat_info records, appended under the block they came from
RecordPlacements(asg, request, pl) ==
    IF pl = <<>> THEN asg
    ELSE RecordPlacements(
             ExtendBlock(asg, Head(pl).block, <<NewAssignment(request, Head(pl).seat)>>),
             request, Tail(pl))

\* a request that found no block and is not reported
UnassignedAfter_dropped(un, request, pl) == un

\* lines 307-308
UnassignedAfter(un, request, pl) ==
    IF pl = <<>> THEN Append(un, request) ELSE un

\* what became of the request: history only
Outcome(lk, av, request) ==
    IF CoveredByPreserved(lk, request) THEN "skipped"
    ELSE IF Placements(av, request.num_tickets) # <<>> THEN "seated"
    ELSE "unassigned"

\* one iteration of `for request in audience_requests` (lines 257-308)
ProcessRequest(request) ==
    /\ pc = "requests"
    /\ Len(ps_log) + Len(rq_log) < MaxInputs
    /\ IF CoveredByPreserved(preserved_tickets_lookup, request)
       THEN /\ preserved_tickets_lookup' = UsePreserved(preserved_tickets_lookup, request)
            /\ UNCHANGED <<available_seats_ordered, assigned_seats_by_block,
                           unassigned_requests>>
       ELSE LET pl == Placements(available_seats_ordered, request.num_tickets)
            IN /\ available_seats_ordered' = AfterPop(available_seats_ordered, pl)
               /\ assigned_seats_by_block' =
                      RecordPlacements(assigned_seats_by_block, request, pl)
               /\ unassigned_requests' =
                      UnassignedAfter(unassigned_requests, request, pl)
               /\ UNCHANGED preserved_tickets_lookup
    /\ rq_log' = Append(rq_log,
                        [request |-> request,
                         outcome |-> Outcome(preserved_tickets_lookup,
                                             available_seats_ordered, request),
                         before |-> available_seats_ordered,
                         placed |-> IF CoveredByPreserved(preserved_tickets_lookup, request)
                                    THEN <<>>
                                    ELSE Placements(available_seats_ordered,
                                                    request.num_tickets)])
    /\ UNCHANGED <<pc, assigned_keys, original, ps_log>>

\* line 311: the queue is exhausted
Return ==
    /\ pc = "requests"
    /\ pc' = "done"
    /\ UNCHANGED <<available_seats_ordered, assigned_seats_by_block, assigned_keys,
                   preserved_tickets_lookup, unassigned_requests, original,
                   ps_log, rq_log>>

Next ==
    \/ \E ps \in PreservedSeat : Preserve(ps)
    \/ StartRequests
    \/ \E request \in AudienceRequest : ProcessRequest(request)
    \/ Return

Spec == Init /\ [][Next]_vars

\* ---------------------------------------------------------------- properties
\* the number of assignment records over all blocks of assigned_seats_by_block
AssignedCount == SumLen(assigned_seats_by_block, DOMAIN assigned_seats_by_block)
RemainingCount == SumLen(available_seats_ordered, DOMAIN available_seats_ordered)
OriginalCount == SumLen(original, DOMAIN original)

\* the bindings handled so far whose seat was not in their block's available list
NotFound == {i \in 1..Len(ps_log) : ~ps_log[i].found}
AllFound == NotFound = {}
FoundSeatIds == {ps_log[i].ps.seat_number : i \in (1..Len(ps_log)) \ NotFound}
NotFoundSeatIds == {ps_log[i].ps.seat_number : i \in NotFound}
PreservedSeatIds == {ps_log[i].ps.seat_number : i \in 1..Len(ps_log)}

\* the positions of the assignment records: <<block, index>>
AssignmentSlots ==
    UNION {{<<b, i>> : i \in 1..Len(assigned_seats_by_block[b])} :
           b \in DOMAIN assigned_seats_by_block}
SeatAt(slot) == assigned_seats_by_block[slot[1]][slot[2]].seat_number

\* this step is one iteration of the request loop, handling HandledRequest
RequestStep == rq_log' # rq_log
HandledRequest == rq_log'[Len(rq_log')].request
\* this step is one iteration of the preserved loop, handling HandledBinding
PreserveStep == ps_log' # ps_log
HandledBinding == ps_log'[Len(ps_log')].ps
\* the seats a step takes out of block b
PoppedIn(b) == Range(available_seats_ordered[b]) \ Range(available_seats_ordered'[b])
\* the request's key has at least its party size of preserved tickets left
KeyOf(r) == <<r.ticket_holder_name, r.timestamp>>
Covered(r) ==
    /\ r.timestamp \notin {NoneTime, DatetimeMax}
    /\ KeyOf(r) \in DOMAIN preserved_tickets_lookup
    /\ preserved_tickets_lookup[KeyOf(r)] >= r.num_tickets
\* the blocks of inventory av with at least n seats
Holding(av, n) == {b \in DOMAIN av : Len(av[b]) >= n}
SomeSeated == \E i \in 1..Len(rq_log) : rq_log[i].outcome = "seated"

\* C1 as stated: assignments plus remaining seats equal the original seat
\* count, in every state of every run.
C1_Conservation == AssignedCount + RemainingCount = OriginalCount

\* C1 amended: assignments plus remaining seats equal the original seat count
\* plus the number of preserved bindings whose seat was not found; so the
\* counts are conserved exactly in the runs where every binding is found.
C1_ConservationUpToNotFound ==
    AssignedCount + RemainingCount = OriginalCount + Cardinality(NotFound)

C1_Witness ==
    /\ pc = "done"
    /\ AllFound /\ Len(ps_log) >= 1
    /\ SomeSeated
    /\ RemainingCount >= 1

\* C2 as stated: no seat id is in two assignment records.
C2_NoDoubleAssignment ==
    \A p, q \in AssignmentSlots : p # q => SeatAt(p) # SeatAt(q)

\* C2 amended: a seat id that is in two assignment records is named by a
\* preserved binding that was not found in the inventory; so no seat id is
\* assigned twice in the runs where every binding is found.
C2_NoDoubleAssignmentButNotFound ==
    \A p, q \in AssignmentSlots :
        p # q /\ SeatAt(p) = SeatAt(q) => SeatAt(p) \in NotFoundSeatIds

C2_Witness ==
    /\ pc = "done"
    /\ AllFound /\ Len(ps_log) = 1
    /\ Len(rq_log) = 2
    /\ \A i \in 1..2 : rq_log[i].outcome = "seated"
    /\ Cardinality(AssignmentSlots) >= 3

\* C3 as stated: the request loop never pops a seat that a preserved binding
\* names.
C3_PreservedNeverHandedOut ==
    [][RequestStep =>
          \A b \in DOMAIN available_seats_ordered :
              PoppedIn(b) \cap PreservedSeatIds = {}]_vars

\* C3 amended: the request loop never pops a seat that a preserved binding
\* found in (and so removed from) the block it names; and a request whose key
\* has more preserved tickets left than its party size takes its party size
\* off that count and pops nothing.
C3_FoundPreservedNeverHandedOut ==
    [][RequestStep =>
          /\ \A b \in DOMAIN available_seats_ordered :
                 PoppedIn(b) \cap FoundSeatIds = {}
          /\ LET r == HandledRequest
                 key == <<r.ticket_holder_name, r.timestamp>>
             IN (/\ r.timestamp \notin {NoneTime, DatetimeMax}
                 /\ key \in DOMAIN preserved_tickets_lookup
                 /\ preserved_tickets_lookup[key] > r.num_tickets)
                => /\ preserved_tickets_lookup' =
                          [preserved_tickets_lookup EXCEPT ![key] = @ - r.num_tickets]
                   /\ available_seats_ordered' = available_seats_ordered]_vars

C3_Witness ==
    /\ pc = "done"
    /\ Len(ps_log) = 2 /\ AllFound
    /\ ps_log[1].ps.block = ps_log[2].ps.block
    /\ Len(rq_log) = 1
    /\ rq_log[1].outcome = "skipped"
    /\ rq_log[1].request.num_tickets = 1
    /\ RemainingCount >= 1
    /\ \E key \in DOMAIN preserved_tickets_lookup : preserved_tickets_lookup[key] = 1

\* C4: a request step adds assignment records under at most one block name,
\* and when it adds any they are party-size records whose seats all left the
\* available list of that same block; no other block loses a seat.
C4_AtomicPlacement ==
    [][RequestStep =>
          LET r == HandledRequest
              grown == {b \in DOMAIN assigned_seats_by_block' :
                          \/ b \notin DOMAIN assigned_seats_by_block
                          \/ assigned_seats_by_block'[b] # assigned_seats_by_block[b]}
          IN /\ Cardinality(grown) <= 1
             /\ \A b \in grown :
                    /\ b \in DOMAIN available_seats_ordered
                    /\ Len(assigned_seats_by_block'[b]) =
                           Len(assigned_seats_by_block[b]) + r.num_tickets
                    /\ Cardinality(PoppedIn(b)) = r.num_tickets
                    /\ \A c \in DOMAIN available_seats_ordered \ {b} :
                           available_seats_ordered'[c] = available_seats_ordered[c]
             /\ grown = {} => available_seats_ordered' = available_seats_ordered]_vars

\* a party of two seated in block 2 while block 1 held one seat: the two
\* blocks together could have seated it split
C4_Witness ==
    /\ pc = "done"
    /\ \E i \in 1..Len(rq_log) :
           /\ rq_log[i].outcome = "seated"
           /\ rq_log[i].request.num_tickets = 2
           /\ DOMAIN rq_log[i].before = {1, 2}
           /\ Len(rq_log[i].before[1]) = 1
           /\ Len(available_seats_ordered[1]) = 1
           /\ Len(assigned_seats_by_block[2]) >= 2

\* the case of C5 for the requests handled i-th and j-th, i before j: when
\* request i came up, one block k was the only block with enough seats for
\* request i, the only block with enough seats for request j, and had fewer
\* seats than the two need together; neither request was covered by a
\* preservation
FairnessCase(i, j, k) ==
    LET A == rq_log[i]
        B == rq_log[j]
    IN /\ i < j
       /\ A.outcome # "skipped" /\ B.outcome # "skipped"
       /\ Holding(A.before, A.request.num_tickets) = {k}
       /\ Holding(A.before, B.request.num_tickets) = {k}
       /\ Len(A.before[k]) < A.request.num_tickets + B.request.num_tickets

\* C5: in that case request i was seated in block k, with the first seats of
\* the block, and request j is in the unassigned list and got no seat.
C5_QueueOrderFairness ==
    \A i, j \in 1..Len(rq_log) : \A k \in DOMAIN original :
        FairnessCase(i, j, k) =>
            LET A == rq_log[i]
                B == rq_log[j]
            IN /\ A.outcome = "seated"
               /\ Len(A.placed) = A.request.num_tickets
               /\ \A m \in 1..Len(A.placed) :
                      /\ A.placed[m].block = k
                      /\ \E q \in 1..Len(assigned_seats_by_block[k]) :
                             assigned_seats_by_block[k][q] =
                                 NewAssignment(A.request, A.placed[m].seat)
               /\ B.outcome = "unassigned"
               /\ B.placed = <<>>
               /\ \E q \in 1..Len(unassigned_requests) :
                      unassigned_requests[q] = B.request

C5_Witness ==
    /\ pc = "done"
    /\ Len(rq_log) = 2
    /\ DOMAIN original = {1, 2}
    /\ FairnessCase(1, 2, 2)
    /\ rq_log[1].request.num_tickets = 2
    /\ rq_log[2].request.num_tickets = 1
    /\ rq_log[1].outcome = "seated"
    /\ unassigned_requests = <<rq_log[2].request>>

\* C6: a request with a valid timestamp whose key has at least its party size
\* of preserved tickets left takes exactly its party size off that count and
\* changes nothing else: no assignment, no seat popped, not unassigned.
C6_PreservationSatisfiedSkip ==
    [][RequestStep /\ Covered(HandledRequest) =>
          /\ preserved_tickets_lookup' =
                 [preserved_tickets_lookup EXCEPT
                      ![KeyOf(HandledRequest)] = @ - HandledRequest.num_tickets]
          /\ assigned_seats_by_block' = assigned_seats_by_block
          /\ available_seats_ordered' = available_seats_ordered
          /\ unassigned_requests' = unassigned_requests]_vars

\* two preserved tickets under one key, used up by one request for two, while
\* a seat the request could not have used anyway is still free
C6_Witness ==
    /\ pc = "done"
    /\ Len(ps_log) = 2
    /\ Len(rq_log) = 1
    /\ rq_log[1].outcome = "skipped"
    /\ rq_log[1].request.num_tickets = 2
    /\ preserved_tickets_lookup[KeyOf(rq_log[1].request)] = 0
    /\ AssignedCount = 2
    /\ unassigned_requests = <<>>
    /\ RemainingCount = SumLen(rq_log[1].before, DOMAIN rq_log[1].before)

\* the first block of the inventory, ascending, with at least n seats
FirstHolding(n) ==
    CHOOSE b \in Holding(available_seats_ordered, n) :
        \A c \in Holding(available_seats_ordered, n) : b <= c

\* C7: a request not covered by a preservation, when some block has at least
\* party-size seats, gets the first party-size seats of the first such block,
\* in order, appended as its assignments under that block; the block keeps
\* the rest of its seats in order, and no other block, the unassigned list or
\* the lookup changes.
C7_FirstFitFromTheFront ==
    [][(/\ RequestStep
        /\ ~Covered(HandledRequest)
        /\ Holding(available_seats_ordered, HandledRequest.num_tickets) # {})
       => LET r == HandledRequest
              n == r.num_tickets
              b == FirstHolding(n)
              seats == available_seats_ordered[b]
          IN /\ available_seats_ordered' =
                    [available_seats_ordered EXCEPT
                         ![b] = [i \in 1..(Len(seats) - n) |-> seats[i + n]]]
             /\ assigned_seats_by_block' =
                    [assigned_seats_by_block EXCEPT
                         ![b] = @ \o [i \in 1..n |->
                                        [seat_number |-> seats[i],
                                         ticket_holder_name |-> r.ticket_holder_name,
                                         timestamp |-> r.timestamp]]]
             /\ unassigned_requests' = unassigned_requests
             /\ preserved_tickets_lookup' = preserved_tickets_lookup]_vars

\* a single seat taken from the front of a block of three in an inventory of
\* two blocks, the other two seats staying behind in order
C7_Witness ==
    /\ pc = "done"
    /\ Len(rq_log) = 1
    /\ rq_log[1].outcome = "seated"
    /\ rq_log[1].request.num_tickets = 1
    /\ DOMAIN original = {1, 2}
    /\ Len(rq_log[1].before[2]) = 3
    /\ available_seats_ordered[2] = SubSeq(rq_log[1].before[2], 2, 3)
    /\ Len(assigned_seats_by_block[2]) = 1

\* C8: a request not covered by a preservation, when no block has party-size
\* seats, is appended as it is to the unassigned list; no assignment is made,
\* no block and no lookup count changes, and the loop goes on.
C8_UnsatisfiableRequest ==
    [][(/\ RequestStep
        /\ ~Covered(HandledRequest)
        /\ Holding(available_seats_ordered, HandledRequest.num_tickets) = {})
       => /\ unassigned_requests' = Append(unassigned_requests, HandledRequest)
          /\ assigned_seats_by_block' = assigned_seats_by_block
          /\ available_seats_ordered' = available_seats_ordered
          /\ preserved_tickets_lookup' = preserved_tickets_lookup
          /\ pc' = "requests"]_vars

\* a party of two turned away while two seats were free, one in each block,
\* and the next request, for one, seated
C8_Witness ==
    /\ pc = "done"
    /\ Len(rq_log) = 2
    /\ rq_log[1].outcome = "unassigned"
    /\ rq_log[1].request.num_tickets = 2
    /\ DOMAIN rq_log[1].before = {1, 2}
    /\ \A b \in {1, 2} : Len(rq_log[1].before[b]) = 1
    /\ rq_log[2].outcome = "seated"
    /\ unassigned_requests = <<rq_log[1].request>>

Sentinels == {NoneTime, DatetimeMax}

\* C9: a binding whose allocation time is None or datetime.max leaves the
\* lookup as it was, so no key of the lookup carries either; a request whose
\* timestamp is None or datetime.max leaves the lookup as it was and goes
\* through the block scan: seats popped from a block, or the request appended
\* to the unassigned list.
C9_SentinelNeverMatches ==
    [][/\ (PreserveStep /\ HandledBinding.allocation_time \in Sentinels)
           => preserved_tickets_lookup' = preserved_tickets_lookup
       /\ \A key \in DOMAIN preserved_tickets_lookup' : key[2] \notin Sentinels
       /\ (RequestStep /\ HandledRequest.timestamp \in Sentinels)
           => /\ preserved_tickets_lookup' = preserved_tickets_lookup
              /\ IF Holding(available_seats_ordered, HandledRequest.num_tickets) # {}
                 THEN /\ RemainingCount' = RemainingCount - HandledRequest.num_tickets
                      /\ AssignedCount' = AssignedCount + HandledRequest.num_tickets
                      /\ unassigned_requests' = unassigned_requests
                 ELSE /\ unassigned_requests' =
                             Append(unassigned_requests, HandledRequest)
                      /\ available_seats_ordered' = available_seats_ordered
                      /\ assigned_seats_by_block' = assigned_seats_by_block]_vars

\* a found binding and a request of the same holder, both with datetime.max,
\* the request seated all the same; then a request with None, unassigned;
\* nothing in the lookup
C9_Witness ==
    /\ pc = "done"
    /\ Len(ps_log) = 1 /\ Len(rq_log) = 2
    /\ ps_log[1].found
    /\ ps_log[1].ps.allocation_time = DatetimeMax
    /\ rq_log[1].request.timestamp = DatetimeMax
    /\ rq_log[1].request.ticket_holder_name = ps_log[1].ps.ticket_holder_name
    /\ rq_log[1].outcome = "seated"
    /\ rq_log[2].request.timestamp = NoneTime
    /\ rq_log[2].outcome = "unassigned"
    /\ DOMAIN preserved_tickets_lookup = {}

\* the binding's block is no key of the inventory, or its seat is not in
\* that block's available list
Unmatched(ps) ==
    \/ ps.block \notin DOMAIN available_seats_ordered
    \/ \A i \in 1..Len(available_seats_ordered[ps.block]) :
           available_seats_ordered[ps.block][i] # ps.seat_number

\* C10: such a binding is still appended as an assignment under its block
\* name (a new key when the block is unknown), every other block's
\* assignments and the whole inventory stay as they were, and the preserved
\* loop goes on.
C10_UnmatchedPreservedSeat ==
    [][(PreserveStep /\ Unmatched(HandledBinding)) =>
          LET ps == HandledBinding
              sofar == IF ps.block \in DOMAIN assigned_seats_by_block
                       THEN assigned_seats_by_block[ps.block] ELSE <<>>
          IN /\ DOMAIN assigned_seats_by_block' =
                    DOMAIN assigned_seats_by_block \cup {ps.block}
             /\ assigned_seats_by_block'[ps.block] =
                    Append(sofar, [seat_number |-> ps.seat_number,
                                   ticket_holder_name |-> ps.ticket_holder_name,
                                   timestamp |-> ps.allocation_time])
             /\ \A c \in DOMAIN assigned_seats_by_block \ {ps.block} :
                    assigned_seats_by_block'[c] = assigned_seats_by_block[c]
             /\ available_seats_ordered' = available_seats_ordered
             /\ pc' = "preserved"]_vars

\* a binding for a block the inventory does not have, then a binding that is
\* found, then a request that is seated
C10_Witness ==
    /\ pc = "done"
    /\ Len(ps_log) = 2 /\ Len(rq_log) = 1
    /\ ~ps_log[1].found
    /\ ps_log[1].ps.block \notin DOMAIN original
    /\ ps_log[2].found
    /\ rq_log[1].outcome = "seated"
    /\ Len(assigned_seats_by_block[ps_log[1].ps.block]) = 1
    /\ AssignedCount + RemainingCount = OriginalCount + 1

\* C11: a binding whose seat is in the available list of its block takes
\* exactly that seat out of that block, the other seats of the block keeping
\* their order and every other block its contents; exactly one assignment is
\* appended, under the binding's block; and the seat is then in no block's
\* available list, so no request can pop it.
C11_PreservedSeatRemoval ==
    [][(PreserveStep /\ ~Unmatched(HandledBinding)) =>
          LET ps == HandledBinding
              b == ps.block
              seats == available_seats_ordered[b]
              i == CHOOSE k \in 1..Len(seats) : seats[k] = ps.seat_number
          IN /\ available_seats_ordered' =
                    [available_seats_ordered EXCEPT
                         ![b] = SubSeq(seats, 1, i - 1) \o SubSeq(seats, i + 1, Len(seats))]
             /\ b \in DOMAIN assigned_seats_by_block
             /\ assigned_seats_by_block' =
                    [assigned_seats_by_block EXCEPT
                         ![b] = Append(@, [seat_number |-> ps.seat_number,
                                           ticket_holder_name |-> ps.ticket_holder_name,
                                           timestamp |-> ps.allocation_time])]
             /\ \A c \in DOMAIN available_seats_ordered' :
                    \A k \in 1..Len(available_seats_ordered'[c]) :
                        available_seats_ordered'[c][k] # ps.seat_number]_vars

\* the middle seat of a block of three preserved, and a party of two then
\* seated on the first and the third seat, in that order
C11_Witness ==
    /\ pc = "done"
    /\ Len(ps_log) = 1 /\ Len(rq_log) = 1
    /\ ps_log[1].found
    /\ DOMAIN original = {1, 2}
    /\ Len(original[2]) = 3
    /\ ps_log[1].ps.block = 2
    /\ ps_log[1].ps.seat_number = original[2][2]
    /\ rq_log[1].before[2] = <<original[2][1], original[2][3]>>
    /\ rq_log[1].outcome = "seated"
    /\ rq_log[1].request.num_tickets = 2
    /\ available_seats_ordered[2] = <<>>
    /\ Len(assigned_seats_by_block[2]) = 3

\* the request step left everything but one lookup count alone and took the
\* request's party size off the count of its key
StepSkipped(r) ==
    /\ KeyOf(r) \in DOMAIN preserved_tickets_lookup
    /\ preserved_tickets_lookup' =
           [preserved_tickets_lookup EXCEPT ![KeyOf(r)] = @ - r.num_tickets]
    /\ assigned_seats_by_block' = assigned_seats_by_block
    /\ available_seats_ordered' = available_seats_ordered
    /\ unassigned_requests' = unassigned_requests

\* the request step appended exactly party-size assignments, all carrying the
\* request's holder name and timestamp, and touched neither the unassigned
\* list nor the lookup
StepSeated(r) ==
    /\ preserved_tickets_lookup' = preserved_tickets_lookup
    /\ unassigned_requests' = unassigned_requests
    /\ DOMAIN assigned_seats_by_block' = DOMAIN assigned_seats_by_block
    /\ AssignedCount' = AssignedCount + r.num_tickets
    /\ \A b \in DOMAIN assigned_seats_by_block :
           LET old == assigned_seats_by_block[b]
               new == assigned_seats_by_block'[b]
           IN /\ Len(new) >= Len(old)
              /\ SubSeq(new, 1, Len(old)) = old
              /\ \A k \in (Len(old) + 1)..Len(new) :
                     /\ new[k].ticket_holder_name = r.ticket_holder_name
                     /\ new[k].timestamp = r.timestamp

\* the request step appended the request to the unassigned list and changed
\* nothing else
StepUnassigned(r) ==
    /\ unassigned_requests' = Append(unassigned_requests, r)
    /\ assigned_seats_by_block' = assigned_seats_by_block
    /\ available_seats_ordered' = available_seats_ordered
    /\ preserved_tickets_lookup' = preserved_tickets_lookup

\* the requests of a log that were neither skipped nor seated, in the order
\* of the queue
RECURSIVE TurnedAway(_)
TurnedAway(log) ==
    IF log = <<>> THEN <<>>
    ELSE LET n == Len(log)
             rest == TurnedAway(SubSeq(log, 1, n - 1))
         IN IF log[n].placed = <<>> /\ log[n].outcome # "skipped"
            THEN Append(rest, log[n].request)
            ELSE rest

\* C13: every request step handles one request and is exactly one of the
\* three: skipped, seated, unassigned; the unassigned list is the requests
\* turned away, in queue order; and no lookup count is ever negative.
C13_ExactlyOneOutcome ==
    [][/\ RequestStep =>
           LET r == HandledRequest
           IN /\ Len(rq_log') = Len(rq_log) + 1
              /\ StepSkipped(r) \/ StepSeated(r) \/ StepUnassigned(r)
              /\ ~(StepSkipped(r) /\ StepSeated(r))
              /\ ~(StepSkipped(r) /\ StepUnassigned(r))
              /\ ~(StepSeated(r) /\ StepUnassigned(r))
       /\ unassigned_requests' = TurnedAway(rq_log')
       /\ \A key \in DOMAIN preserved_tickets_lookup' :
              preserved_tickets_lookup'[key] >= 0]_vars

\* one preserved ticket: the first request under its key is skipped and uses
\* it up, the second under the same key finds the count at zero and is
\* turned away for want of a seat
C13_Witness ==
    /\ pc = "done"
    /\ Len(ps_log) = 1 /\ Len(rq_log) = 2
    /\ ps_log[1].found
    /\ rq_log[1].request = rq_log[2].request
    /\ rq_log[1].outcome = "skipped"
    /\ rq_log[2].outcome = "unassigned"
    /\ preserved_tickets_lookup[KeyOf(rq_log[1].request)] = 0
    /\ unassigned_requests = <<rq_log[2].request>>
    /\ AssignedCount = 1
====
